---- MODULE Spec2Model ----
(***************************************************************************)
(* Model of the rover server (src/src/main.rs, src/src/rover.rs).          *)
(*                                                                         *)
(* One process-wide Rover (two DC motors on a PCA9685 PWM controller) sits *)
(* behind a mutex and is shared by every WebSocket session task and by the *)
(* Ctrl-C handler.  Two specifications are given over the same state:      *)
(*                                                                         *)
(*   Spec      the task level: one action per poll segment of a task of    *)
(*             the current_thread runtime (a frame handled, the stream     *)
(*             ending, the final stop, the interrupt, the process exit);   *)
(*   SpecBus   the register-write level: every set_channel_on_off is a     *)
(*             step of its own, and the Rover mutex is explicit.           *)
(*                                                                         *)
(* Both cover the nominal speed range and a bus whose writes succeed.      *)
(* The history variables follow one session, the watched one, which Init   *)
(* picks among all of them.  Further specifications, over the same state:  *)
(*                                                                         *)
(*   SpecDuty  set_pwm_duty_cycle alone, for every pulse of the nominal    *)
(*             range and some above it;                                    *)
(*   SpecDrv   the Rover driven by one caller that holds it, call after    *)
(*             call, every set_channel_on_off a step of its own;           *)
(*   SpecLock  SpecBus with the upgrade and the Ctrl-C handler, for the    *)
(*             traffic of the Rover mutex;                                 *)
(*   SpecFault SpecLock with a bus whose writes may fail.                  *)
(***************************************************************************)
EXTENDS Integers, Sequences, FiniteSets, TLC

\* ---------------------------------------------------------------- bounds

\* Number of WebSocket connections that may be opened during a run.
NumSessions == 2

\* Largest of the consecutive pulse values handed to set_pwm_duty_cycle in
\* SpecDuty; it lies just above the nominal range 0..100.
MaxPulse == 101

Sessions == 1..NumSessions

\* ------------------------------------------------------------- constants

\* Largest off tick of the 4096-tick PWM period: set_level's "fully on".
FullOn == 4095

\* Ticks per PWM period, the 4096f32 of set_pwm_duty_cycle.
PeriodTicks == 4096

\* Largest value of the u16 type of `speed` and of the off tick.
U16Max == 65535

\* ------------------------------------------------------------- rover.rs

Directions == {"Forward", "Backward"}

MotorIds == {"Left", "Right"}

Channels == {"C0", "C1", "C2", "C3", "C4", "C5"}

\* The channel triple DCMotor::new is given for each motor by Rover::new.
MotorChannels(motor) ==
    IF motor = "Right"
    THEN [control |-> "C0", forward |-> "C1", backward |-> "C2"]
    ELSE [control |-> "C5", forward |-> "C3", backward |-> "C4"]

\* f32 `as u16` with no round() before it: the fraction is dropped.
TruncAsU16(hundredths) ==
    IF hundredths < 0
    THEN 0
    ELSE LET r == hundredths \div 100
         IN  IF r > U16Max THEN U16Max ELSE r

\* f32 `round() as u16` of a value given in hundredths: round half away
\* from zero, then a saturating cast (negative values become 0).
RoundAsU16(hundredths) ==
    IF hundredths < 0
    THEN 0
    ELSE LET r == (hundredths + 50) \div 100
         IN  IF r > U16Max THEN U16Max ELSE r

\* The off tick set_pwm_duty_cycle computes:
\*   max(0, (f32::from(pulse) * (4096f32 / 100f32) - 1f32).round() as u16)
\* pulse * 40.96 - 1 is kept exactly, in hundredths.
DutyOffTick(pulse) ==
    LET off == RoundAsU16(pulse * PeriodTicks - 100)
    IN  IF off > 0 THEN off ELSE 0

\* One register write: set_channel_on_off(channel, 0, off).
RegWrite(channel, off) == [channel |-> channel, off |-> off]

\* set_pwm_duty_cycle(channel, pulse)
SetPwmDutyCycle(channel, pulse) == RegWrite(channel, DutyOffTick(pulse))

\* set_level(channel, value)
SetLevel(channel, value) ==
    IF value = 1 THEN RegWrite(channel, FullOn) ELSE RegWrite(channel, 0)

\* set_speed with the levels of the two direction channels exchanged.
SetSpeedWritesSwapped(motor, speed, direction) ==
    LET m == MotorChannels(motor)
    IN  <<SetPwmDutyCycle(m.control, speed)>> \o
        ( IF direction = "Forward"
          THEN <<SetLevel(m.forward, 0), SetLevel(m.backward, 1)>>
          ELSE <<SetLevel(m.forward, 1), SetLevel(m.backward, 0)>> )

\* The register writes of DCMotor::set_speed, in program order.
SetSpeedWrites(motor, speed, direction) ==
    LET m == MotorChannels(motor)
    IN  <<SetPwmDutyCycle(m.control, speed)>> \o
        ( IF direction = "Forward"
          THEN <<SetLevel(m.forward, 1), SetLevel(m.backward, 0)>>
          ELSE <<SetLevel(m.forward, 0), SetLevel(m.backward, 1)>> )

\* A stop that brakes: it also pulls both direction channels low.
MotorStopWritesBrake(motor) ==
    LET m == MotorChannels(motor)
    IN  <<SetPwmDutyCycle(m.control, 0), SetLevel(m.forward, 0),
          SetLevel(m.backward, 0)>>

\* The register writes of DCMotor::stop.
MotorStopWrites(motor) ==
    <<SetPwmDutyCycle(MotorChannels(motor).control, 0)>>

\* Rover::stop with its two lines exchanged: the left motor first.
RoverStopWritesLeftFirst == MotorStopWrites("Left") \o MotorStopWrites("Right")

\* The register writes of Rover::stop: the right motor, then the left.
RoverStopWrites == MotorStopWrites("Right") \o MotorStopWrites("Left")

\* The registers after one write.
WriteReg(regs, w) == [regs EXCEPT ![w.channel] = w.off]

\* The registers after a sequence of writes, first to last.
RECURSIVE ApplyWrites(_, _)
ApplyWrites(regs, ws) ==
    IF ws = <<>> THEN regs
    ELSE ApplyWrites(WriteReg(regs, Head(ws)), Tail(ws))

\* (control, forward, backward) off ticks of a motor.
Triple(regs, motor) ==
    LET m == MotorChannels(motor)
    IN  <<regs[m.control], regs[m.forward], regs[m.backward]>>

\* -------------------------------------------------------------- main.rs

\* Speeds carried by the well-formed MotorRun frames the clients send.
CmdSpeeds == {0, 50}

\* A field a JSON object does not carry.
Absent == "absent"

\* The Rover::stop a session or the interrupt handler calls, as an entry of
\* the history of driver calls.
RoverStopCall ==
    [tag |-> "RoverStop", motor |-> Absent, direction |-> Absent, speed |-> 0]

\* RoverCommand values.
MotorRun(motor, direction, speed) ==
    [tag |-> "MotorRun", motor |-> motor, direction |-> direction, speed |-> speed]

MotorStop(motor) ==
    [tag |-> "MotorStop", motor |-> motor, direction |-> Absent, speed |-> 0]

Commands ==
    {MotorRun(m, d, s) : m \in MotorIds, d \in Directions, s \in CmdSpeeds}
    \cup {MotorStop(m) : m \in MotorIds}

\* Payloads: what msg.to_text() is asked to read.  form "json" is an
\* externally tagged object {tag: {motor, direction, speed}}; "garbage" is
\* text that is no JSON; "nonutf8" is bytes that are no UTF-8 text.
Json(tag, motor, direction, speed) ==
    [form |-> "json", tag |-> tag, motor |-> motor, direction |-> direction,
     speed |-> speed]

Garbage == [form |-> "garbage", tag |-> Absent, motor |-> Absent,
            direction |-> Absent, speed |-> 0]

NonUtf8 == [form |-> "nonutf8", tag |-> Absent, motor |-> Absent,
            direction |-> Absent, speed |-> 0]

\* serde_json's encoding of a RoverCommand.
ToJson(cmd) == Json(cmd.tag, cmd.motor, cmd.direction, cmd.speed)

\* Objects that are JSON but no RoverCommand: unknown variant, unknown
\* motor, unknown or missing direction, speed outside u16.
BadJson ==
    { Json("MotorSpin", "Left", "Forward", 50),
      Json("MotorRun", "Middle", "Forward", 50),
      Json("MotorRun", "Left", "Sideways", 50),
      Json("MotorRun", "Right", Absent, 50),
      Json("MotorRun", "Right", "Backward", U16Max + 1) }

TextPayloads == {ToJson(c) : c \in Commands} \cup BadJson \cup {Garbage}

\* tungstenite::Message: Text is always UTF-8; Binary, Ping and Pong carry
\* arbitrary bytes; the payload of a Close is the reason text of its close
\* frame, which is what to_text() would read.
Msg(type, payload) == [type |-> type, payload |-> payload]

Messages ==
    {Msg("Text", p) : p \in TextPayloads}
    \cup {Msg(t, p) : t \in {"Binary", "Ping", "Pong"}, p \in {Garbage, NonUtf8}}
    \cup {Msg("Binary", ToJson(MotorStop("Left")))}
    \cup {Msg("Close", Garbage),
          Msg("Close", ToJson(MotorRun("Left", "Forward", 50)))}

\* msg.to_text(): Err for bytes that are no UTF-8.
ToTextOk(msg) == msg.payload.form # "nonutf8"

\* The command slot of a decode that failed.
NoCommand ==
    [tag |-> Absent, motor |-> Absent, direction |-> Absent, speed |-> 0]

\* serde_json::from_str::<RoverCommand>(text): Ok(command) or Err.
FromStr(p) ==
    IF p.form # "json" THEN [ok |-> FALSE, cmd |-> NoCommand]
    ELSE IF p.tag = "MotorRun" /\ p.motor \in MotorIds
            /\ p.direction \in Directions /\ p.speed \in 0..U16Max
    THEN [ok |-> TRUE, cmd |-> MotorRun(p.motor, p.direction, p.speed)]
    ELSE IF p.tag = "MotorStop" /\ p.motor \in MotorIds
    THEN [ok |-> TRUE, cmd |-> MotorStop(p.motor)]
    ELSE [ok |-> FALSE, cmd |-> NoCommand]

\* The dispatch with the motor of the command ignored: every command goes
\* to right_motor.
DispatchWritesRightOnly(cmd) ==
    IF cmd.tag = "MotorRun"
    THEN SetSpeedWrites("Right", cmd.speed, cmd.direction)
    ELSE MotorStopWrites("Right")

\* The driver call handle_message makes for a decoded command, as the
\* register writes of that call.
DispatchWrites(cmd) ==
    IF cmd.tag = "MotorRun"
    THEN SetSpeedWrites(cmd.motor, cmd.speed, cmd.direction)
    ELSE MotorStopWrites(cmd.motor)

\* handle_message with a decode failure answered by a full stop.
HandleMessageStopOnError(msg) ==
    IF msg.type = "Close"
    THEN [result |-> "close", cmd |-> NoCommand, writes |-> <<>>]
    ELSE IF ~ToTextOk(msg)
    THEN [result |-> "panic", cmd |-> NoCommand, writes |-> <<>>]
    ELSE LET command == FromStr(msg.payload)
         IN  IF command.ok
             THEN [result |-> "apply", cmd |-> command.cmd,
                   writes |-> DispatchWrites(command.cmd)]
             ELSE [result |-> "error", cmd |-> NoCommand,
                   writes |-> RoverStopWrites]

\* handle_message with the decode result unwrapped instead of matched.
HandleMessageUnwrapCommand(msg) ==
    IF msg.type = "Close"
    THEN [result |-> "close", cmd |-> NoCommand, writes |-> <<>>]
    ELSE IF ~ToTextOk(msg)
    THEN [result |-> "panic", cmd |-> NoCommand, writes |-> <<>>]
    ELSE LET command == FromStr(msg.payload)
         IN  IF command.ok
             THEN [result |-> "apply", cmd |-> command.cmd,
                   writes |-> DispatchWrites(command.cmd)]
             ELSE [result |-> "panic", cmd |-> NoCommand, writes |-> <<>>]

\* handle_message without the early return of lines 37-40: a Close frame
\* is read and decoded like any other.
HandleMessageNoCloseCheck(msg) ==
    IF ~ToTextOk(msg)
    THEN [result |-> "panic", cmd |-> NoCommand, writes |-> <<>>]
    ELSE LET command == FromStr(msg.payload)
         IN  IF command.ok
             THEN [result |-> "apply", cmd |-> command.cmd,
                   writes |-> DispatchWrites(command.cmd)]
             ELSE [result |-> "error", cmd |-> NoCommand, writes |-> <<>>]

\* handle_message(addr, msg, rover): what becomes of the frame.
\*   "close"   a Close frame: nothing is read or written
\*   "panic"   to_text().unwrap() fails: the task unwinds
\*   "apply"   the text decodes: the command is dispatched under the lock
\*   "error"   the text does not decode: the error is logged
HandleMessage(msg) ==
    IF msg.type = "Close"
    THEN [result |-> "close", cmd |-> NoCommand, writes |-> <<>>]
    ELSE IF ~ToTextOk(msg)
    THEN [result |-> "panic", cmd |-> NoCommand, writes |-> <<>>]
    ELSE LET command == FromStr(msg.payload)
         IN  IF command.ok
             THEN [result |-> "apply", cmd |-> command.cmd,
                   writes |-> DispatchWrites(command.cmd)]
             ELSE [result |-> "error", cmd |-> NoCommand, writes |-> <<>>]

\* ----------------------------------------------------------------- state

VARIABLES
    chan,       \* off tick of every PWM channel (the PCA9685 registers)
    mainpc,     \* where main() is
    pc,         \* where each session task is
    cause,      \* the value receive.await resolved to, until it is matched
    closeSeen,  \* the session's stream has delivered a Close frame
    watched,    \* the session the history variables follow
    trail,      \* history: the watched session's Rover operations and the
                \*   outcome of its stream, in order, a run of commands
                \*   written as one "cmd"; in SpecDuty the log of the calls
                \*   of set_pwm_duty_cycle; in SpecDrv the register writes
                \*   made so far by the driver call in progress
    errs,       \* history: the watched session's "unable to parse command"
                \*   log: "no", "logged", or "recovered" once a command was
                \*   applied after it
    lock,       \* SpecBus: the task holding the Rover mutex, 0 when free,
                \*   Poisoned once a holder has panicked
    todo,       \* SpecBus: register writes left to the task holding the lock
    cur,        \* SpecBus: the decoded command each session has in hand
    owed,       \* SpecBus: history, commands decoded and not yet applied
    lastCall    \* SpecBus: history, last completed driver call per motor

histVars == <<watched, trail, errs>>

busVars == <<lock, todo, cur, owed, lastCall>>

vars == <<chan, mainpc, pc, cause, closeSeen, histVars, busVars>>

\* Off ticks left in the control registers by an earlier run of the
\* process: the PCA9685 keeps them, Rover::new does not clear them.
InitChan ==
    { [c \in Channels |->
         IF c = "C0" THEN r ELSE IF c = "C5" THEN l ELSE 0]
      : r \in {0, FullOn}, l \in {0, FullOn} }

\* main() has built the Rover (line 217) and nothing else.
Init ==
    /\ chan \in InitChan
    /\ mainpc = "new"
    /\ pc = [s \in Sessions |-> "idle"]
    /\ cause = [s \in Sessions |-> "none"]
    /\ closeSeen = [s \in Sessions |-> FALSE]
    /\ watched \in Sessions
    /\ trail = <<>>
    /\ errs = "no"
    /\ lock = 0
    /\ todo = [s \in Sessions |-> <<>>]
    /\ cur = [s \in Sessions |-> NoCommand]
    /\ owed = [s \in Sessions |-> <<>>]
    /\ lastCall = [m \in MotorIds |-> NoCommand]

\* ------------------------------------------------------ Spec: task level

\* The history with one more event of the given kind.
Did(h, kind) ==
    IF h # <<>> /\ h[Len(h)] = kind THEN h ELSE Append(h, kind)

\* main(), line 219: rover.lock().unwrap().stop() before the server binds.
StartupStop ==
    /\ mainpc = "new"
    /\ chan' = ApplyWrites(chan, RoverStopWrites)
    /\ mainpc' = "serving"
    /\ UNCHANGED <<pc, cause, closeSeen, histVars, busVars>>

\* handle_request, lines 87-94: an upgrade request on /websocket spawns the
\* session task, which awaits upgrade::on.  Sessions are numbered in the
\* order their requests arrive.
Connect(s) ==
    /\ mainpc = "serving"
    /\ pc[s] = "idle"
    /\ \A r \in Sessions : r < s => pc[r] # "idle"
    /\ pc' = [pc EXCEPT ![s] = "upgrading"]
    /\ UNCHANGED <<chan, mainpc, cause, closeSeen, histVars, busVars>>

\* Lines 96-111: the upgrade succeeds, the stream is split and read.
Upgraded(s) ==
    /\ mainpc \in {"serving", "draining"}
    /\ pc[s] = "upgrading"
    /\ pc' = [pc EXCEPT ![s] = "active"]
    /\ UNCHANGED <<chan, mainpc, cause, closeSeen, histVars, busVars>>

\* Lines 132-139: the upgrade fails; the task logs and ends, no session.
UpgradeFailed(s) ==
    /\ mainpc \in {"serving", "draining"}
    /\ pc[s] = "upgrading"
    /\ pc' = [pc EXCEPT ![s] = "refused"]
    /\ UNCHANGED <<chan, mainpc, cause, closeSeen, histVars, busVars>>

\* Lines 112-116 with handle_message: one frame of the stream is handled.
\* After a Close frame the stream delivers no further frame.
RecvFrame(s, msg) ==
    /\ mainpc \in {"serving", "draining"}
    /\ pc[s] = "active"
    /\ ~closeSeen[s]
    /\ LET h == HandleMessage(msg)
       IN  /\ chan' = ApplyWrites(chan, h.writes)
           /\ pc' = [pc EXCEPT ![s] = IF h.result = "panic" THEN "panicked" ELSE @]
           /\ closeSeen' = [closeSeen EXCEPT ![s] = (h.result = "close")]
           /\ trail' = IF s = watched /\ h.result = "apply"
                       THEN Did(trail, "cmd") ELSE trail
           /\ errs' = IF s # watched THEN errs
                      ELSE IF h.result = "panic" THEN "no"
                      ELSE IF h.result = "error" /\ errs = "no" THEN "logged"
                      ELSE IF h.result = "apply" /\ errs = "logged" THEN "recovered"
                      ELSE errs
    /\ UNCHANGED <<mainpc, cause, watched, busVars>>

\* Line 118: receive.await resolves: Ok (the stream is exhausted),
\* Err(ConnectionClosed), or any other transport error.
StreamOutcomes == {"ok", "closed", "error"}

StreamDone(s, outcome) ==
    /\ mainpc \in {"serving", "draining"}
    /\ pc[s] = "active"
    /\ pc' = [pc EXCEPT ![s] = "closing"]
    /\ cause' = [cause EXCEPT ![s] = outcome]
    /\ closeSeen' = [closeSeen EXCEPT ![s] = FALSE]
    /\ trail' = IF s = watched THEN Append(trail, outcome) ELSE trail
    /\ errs' = IF s = watched THEN "no" ELSE errs
    /\ UNCHANGED <<chan, mainpc, watched, busVars>>

\* The match with no stop in its catch-all error arm.
ArmWritesNoStopOnError(outcome) ==
    IF outcome = "ok" THEN RoverStopWrites
    ELSE IF outcome = "closed" THEN RoverStopWrites
    ELSE <<>>

\* The Rover operation of each arm of the match on receive.await,
\* lines 119-129.
ArmWrites(outcome) ==
    IF outcome = "ok" THEN RoverStopWrites
    ELSE IF outcome = "closed" THEN RoverStopWrites
    ELSE RoverStopWrites

\* Lines 119-130: the arm runs and the task ends.
FinalStop(s) ==
    /\ mainpc \in {"serving", "draining"}
    /\ pc[s] = "closing"
    /\ chan' = ApplyWrites(chan, ArmWrites(cause[s]))
    /\ trail' = IF s = watched /\ ArmWrites(cause[s]) = RoverStopWrites
                THEN Did(trail, "stop") ELSE trail
    /\ pc' = [pc EXCEPT ![s] = "ended"]
    /\ cause' = [cause EXCEPT ![s] = "none"]
    /\ UNCHANGED <<mainpc, closeSeen, watched, errs, busVars>>

\* shutdown_signal, lines 204-211: Ctrl-C arrives, the Rover is stopped and
\* the server starts its graceful shutdown.
Interrupt ==
    /\ mainpc = "serving"
    /\ chan' = ApplyWrites(chan, RoverStopWrites)
    /\ mainpc' = "draining"
    /\ UNCHANGED <<pc, cause, closeSeen, histVars, busVars>>

\* main(), lines 241-247: the graceful shutdown completes once the open
\* HTTP connections have drained, main returns and the runtime is dropped
\* with the session tasks still suspended on their streams.  Tasks of the
\* current_thread runtime are only ever dropped at an await.
Exit ==
    /\ mainpc = "draining"
    /\ \A s \in Sessions : pc[s] # "closing"
    /\ mainpc' = "exited"
    /\ UNCHANGED <<chan, pc, cause, closeSeen, histVars, busVars>>

Next ==
    \/ StartupStop
    \/ \E s \in Sessions : Connect(s)
    \/ \E s \in Sessions : Upgraded(s)
    \/ \E s \in Sessions : UpgradeFailed(s)
    \/ \E s \in Sessions : \E msg \in Messages : RecvFrame(s, msg)
    \/ \E s \in Sessions : \E o \in StreamOutcomes : StreamDone(s, o)
    \/ \E s \in Sessions : FinalStop(s)
    \/ Interrupt
    \/ Exit

Spec == Init /\ [][Next]_vars

\* The arm of the match runs in the poll that resolved receive.await.
FairSpec == Spec /\ \A s \in Sessions : WF_vars(FinalStop(s))

\* ------------------------------------------------- claims: task level

\* Both control channels are at off tick 0: neither motor is driven.
MotorsStopped(regs) ==
    /\ regs[MotorChannels("Right").control] = 0
    /\ regs[MotorChannels("Left").control] = 0

\* The session's task is over: it returned or it unwound.
Terminated(s) == pc[s] \in {"ended", "panicked"}

\* The session holds an open stream or is in its closing code.
Live(s) == pc[s] \in {"active", "closing"}

\* msg reaches the decoder and the decoder rejects it.
FailsToDecode(msg) ==
    /\ msg.type # "Close"
    /\ ToTextOk(msg)
    /\ ~FromStr(msg.payload).ok

\* The frames of the input set that fail to decode.
UndecodableMessages == {msg \in Messages : FailsToDecode(msg)}

\* The last event of the history is a stop of the Rover.
EndsWithStop(h) == h # <<>> /\ h[Len(h)] = "stop"

\* No command follows the transport error in the history.
NoCommandAfterError(h) ==
    \A i, j \in 1..Len(h) : (h[i] = "error" /\ i < j) => h[j] # "cmd"

\* C1: every session task that has ended, for whatever reason, called
\* Rover.stop() after the last command it applied.
C1_FinalStopOnEveryExit ==
    Terminated(watched) => EndsWithStop(trail)

\* C2: once Ctrl-C has been received, the Rover is stopped and stays so
\* until the process exits: at process exit both control off ticks are 0.
C2_StoppedAtProcessExit ==
    mainpc = "exited" => MotorsStopped(chan)

\* C3: after the startup stop, whenever no session is live, both control
\* off ticks are 0.
C3_NoAuthorityNoMotion ==
    (mainpc # "new" /\ \A s \in Sessions : ~Live(s)) => MotorsStopped(chan)

\* C5: a session whose transport fails with an error (no Close frame)
\* applies no further command, calls Rover.stop() and only then ends;
\* right after that stop both control off ticks are 0; and the session
\* does get to that end.
C5_StopOnTransportError ==
    /\ [](NoCommandAfterError(trail))
    /\ []((pc[watched] = "ended" /\ \E i \in 1..Len(trail) : trail[i] = "error")
            => EndsWithStop(trail))
    /\ [][(cause[watched] = "error" /\ pc'[watched] = "ended")
            => (EndsWithStop(trail') /\ MotorsStopped(chan'))]_vars
    /\ (cause[watched] = "error") ~> (pc[watched] = "ended")

\* C5 witness: a session applied commands, its transport failed, it
\* stopped the Rover and ended.
C5_Witness ==
    /\ pc[watched] = "ended"
    /\ trail = <<"cmd", "error", "stop">>
    /\ MotorsStopped(chan)

\* C6: handling a frame that fails to decode writes no register: a step
\* that changes any of the six off ticks is no such step.
C6_DecodeFailureWritesNothing ==
    [][chan' # chan =>
            \A s \in Sessions : \A msg \in UndecodableMessages :
                ~RecvFrame(s, msg)]_vars

\* C6 witness: a decode failure was logged by a session that had set the
\* left motor running forward, and the left motor's registers still hold
\* that command.
C6_Witness ==
    /\ errs = "logged"
    /\ trail = <<"cmd">>
    /\ Triple(chan, "Left") = <<DutyOffTick(50), FullOn, 0>>

C13_StoppedOnOpen ==
    [][\A s \in Sessions :
          (pc[s] = "upgrading" /\ pc'[s] = "active") => MotorsStopped(chan')]_vars

\* The Close frames of the input set.
CloseMessages == {msg \in Messages : msg.type = "Close"}

BusCommands ==
    {MotorRun(m, d, s) : m \in MotorIds, d \in Directions, s \in {50, 100}}
    \cup {MotorStop(m) : m \in MotorIds}

BusMessages == {Msg("Text", ToJson(c)) : c \in BusCommands} \cup {Msg("Text", Garbage)}

\* The server is serving, every session's stream is open, the startup stop
\* has run and nobody holds the Rover.
InitBus ==
    /\ chan = [c \in Channels |-> 0]
    /\ mainpc = "serving"
    /\ pc = [s \in Sessions |-> "active"]
    /\ cause = [s \in Sessions |-> "none"]
    /\ closeSeen = [s \in Sessions |-> FALSE]
    /\ watched = 1
    /\ trail = <<>>
    /\ errs = "no"
    /\ lock = 0
    /\ todo = [s \in Sessions |-> <<>>]
    /\ cur = [s \in Sessions |-> NoCommand]
    /\ owed = [s \in Sessions |-> <<>>]
    /\ lastCall = [m \in MotorIds |-> NoCommand]

\* The motor a channel belongs to.
MotorOf(channel) ==
    IF channel \in {"C0", "C1", "C2"} THEN "Right" ELSE "Left"

\* A Mutex with no exclusion: lock() returns whoever holds it.
MutexFreeAlways(holder) == TRUE

\* rover.lock(): the caller gets the guard once nobody holds it.
MutexFree(holder) == holder = 0

\* handle_message taking the guard with try_lock: a command decoded while
\* another task holds the Rover is dropped.
BusRecvTryLock(s, msg) ==
    /\ pc[s] = "active"
    /\ LET h == HandleMessage(msg)
       IN  /\ h.result \in {"apply", "error"}
           /\ IF h.result = "apply"
              THEN /\ pc' = [pc EXCEPT ![s] = IF lock = 0 THEN "locking" ELSE @]
                   /\ cur' = [cur EXCEPT ![s] = IF lock = 0 THEN h.cmd ELSE @]
                   /\ owed' = [owed EXCEPT ![s] = Append(@, h.cmd)]
              ELSE UNCHANGED <<pc, cur, owed>>
    /\ UNCHANGED <<chan, mainpc, cause, closeSeen, histVars, lock, todo, lastCall>>

\* A frame is taken off the stream and decoded (lines 112-113, 37-52); a
\* decoded command is next applied under the lock.
BusRecv(s, msg) ==
    /\ pc[s] = "active"
    /\ LET h == HandleMessage(msg)
       IN  /\ h.result \in {"apply", "error"}
           /\ IF h.result = "apply"
              THEN /\ pc' = [pc EXCEPT ![s] = "locking"]
                   /\ cur' = [cur EXCEPT ![s] = h.cmd]
                   /\ owed' = [owed EXCEPT ![s] = Append(@, h.cmd)]
              ELSE UNCHANGED <<pc, cur, owed>>
    /\ UNCHANGED <<chan, mainpc, cause, closeSeen, histVars, lock, todo, lastCall>>

\* rover.lock().unwrap() of lines 54 and 62: the session takes the guard
\* and enters set_speed or stop.
AcquireForCommand(s) ==
    /\ pc[s] = "locking"
    /\ MutexFree(lock)
    /\ lock' = s
    /\ todo' = [todo EXCEPT ![s] = DispatchWrites(cur[s])]
    /\ pc' = [pc EXCEPT ![s] = "writing"]
    /\ UNCHANGED <<chan, mainpc, cause, closeSeen, histVars, cur, owed, lastCall>>

\* Line 118: the stream ends or fails.
BusStreamDone(s, outcome) ==
    /\ pc[s] = "active"
    /\ pc' = [pc EXCEPT ![s] = "closing"]
    /\ cause' = [cause EXCEPT ![s] = outcome]
    /\ UNCHANGED <<chan, mainpc, closeSeen, histVars, busVars>>

\* rover.lock().unwrap() of lines 120, 123, 127: the session takes the
\* guard and enters Rover::stop.
AcquireForStop(s) ==
    /\ pc[s] = "closing"
    /\ MutexFree(lock)
    /\ lock' = s
    /\ todo' = [todo EXCEPT ![s] = ArmWrites(cause[s])]
    /\ pc' = [pc EXCEPT ![s] = "stopping"]
    /\ UNCHANGED <<chan, mainpc, cause, closeSeen, histVars, cur, owed, lastCall>>

\* The history of driver calls after the session's write w: a set_speed
\* is complete with its last write, a stop with its only one.
CallsAfterWrite(calls, s, w, last) ==
    IF pc[s] = "stopping"
    THEN [calls EXCEPT ![MotorOf(w.channel)] = RoverStopCall]
    ELSE IF cur[s].tag = "MotorStop" \/ last
    THEN [calls EXCEPT ![cur[s].motor] = cur[s]]
    ELSE calls

\* WriteStep with the guard of handle_message kept alive past the call:
\* the session goes back to its stream still holding the Rover.
WriteStepGuardKept(s) ==
    /\ pc[s] \in {"writing", "stopping"}
    /\ todo[s] # <<>>
    /\ LET w == Head(todo[s])
           last == Len(todo[s]) = 1
       IN  /\ chan' = WriteReg(chan, w)
           /\ todo' = [todo EXCEPT ![s] = Tail(@)]
           /\ lastCall' = CallsAfterWrite(lastCall, s, w, last)
           /\ IF last
              THEN /\ lock' = IF pc[s] = "writing" THEN lock ELSE 0
                   /\ pc' = [pc EXCEPT ![s] =
                               IF @ = "writing" THEN "active" ELSE "ended"]
                   /\ cur' = [cur EXCEPT ![s] = NoCommand]
                   /\ owed' = [owed EXCEPT ![s] =
                                 IF pc[s] = "writing" THEN Tail(@) ELSE @]
                   /\ cause' = [cause EXCEPT ![s] = "none"]
              ELSE UNCHANGED <<lock, pc, cur, owed, cause>>
    /\ UNCHANGED <<mainpc, closeSeen, histVars>>

\* One set_channel_on_off of the call in progress (rover.rs lines 63, 69,
\* 72).  With the last write the call returns, the guard is dropped and
\* the session goes back to its stream, or ends after its final stop.
WriteStep(s) ==
    /\ pc[s] \in {"writing", "stopping"}
    /\ todo[s] # <<>>
    /\ LET w == Head(todo[s])
           last == Len(todo[s]) = 1
       IN  /\ chan' = WriteReg(chan, w)
           /\ todo' = [todo EXCEPT ![s] = Tail(@)]
           /\ lastCall' = CallsAfterWrite(lastCall, s, w, last)
           /\ IF last
              THEN /\ lock' = 0
                   /\ pc' = [pc EXCEPT ![s] =
                               IF @ = "writing" THEN "active" ELSE "ended"]
                   /\ cur' = [cur EXCEPT ![s] = NoCommand]
                   /\ owed' = [owed EXCEPT ![s] =
                                 IF pc[s] = "writing" THEN Tail(@) ELSE @]
                   /\ cause' = [cause EXCEPT ![s] = "none"]
              ELSE UNCHANGED <<lock, pc, cur, owed, cause>>
    /\ UNCHANGED <<mainpc, closeSeen, histVars>>

NextBus ==
    \/ \E s \in Sessions : \E msg \in BusMessages : BusRecv(s, msg)
    \/ \E s \in Sessions : AcquireForCommand(s)
    \/ \E s \in Sessions : \E o \in StreamOutcomes : BusStreamDone(s, o)
    \/ \E s \in Sessions : AcquireForStop(s)
    \/ \E s \in Sessions : WriteStep(s)

SpecBus == InitBus /\ [][NextBus]_vars

\* -------------------------------------- claims: register-write level

\* No driver call is in progress.
Quiet == \A s \in Sessions : pc[s] \notin {"writing", "stopping"}

\* What a complete MotorRun leaves in its motor's registers.
ExpectedTriple(c) ==
    IF c.direction = "Forward"
    THEN <<DutyOffTick(c.speed), FullOn, 0>>
    ELSE <<DutyOffTick(c.speed), 0, FullOn>>

\* The registers show command c applied.
InEffect(regs, c) ==
    IF c.tag = "MotorRun"
    THEN Triple(regs, c.motor) = ExpectedTriple(c)
    ELSE regs[MotorChannels(c.motor).control] = 0

DirectionChannels ==
    {MotorChannels(m).forward : m \in MotorIds}
    \cup {MotorChannels(m).backward : m \in MotorIds}

\* C4: the register writes of concurrent commands never interleave: once
\* no call is in progress, a motor whose last completed call is a MotorRun
\* holds exactly that command's control, forward and backward off ticks.
C4_NoInterleavedWrites ==
    Quiet =>
        \A m \in MotorIds :
            lastCall[m].tag = "MotorRun"
                => Triple(chan, m) = ExpectedTriple(lastCall[m])

\* C4 witness: one session is inside set_speed for a motor while another
\* waits for the lock with a different MotorRun for the same motor.
C4_Witness ==
    \E s, r \in Sessions :
        /\ s # r
        /\ pc[s] = "writing" /\ Len(todo[s]) = 2
        /\ pc[r] = "locking"
        /\ cur[s].tag = "MotorRun" /\ cur[r].tag = "MotorRun"
        /\ cur[s].motor = cur[r].motor
        /\ cur[s].speed # cur[r].speed
        /\ cur[s].direction # cur[r].direction

\* C8: a session applies its decoded commands in receipt order, each
\* exactly once: a decoded command is owed until its writes are done, at
\* most one is owed, none is owed when the session reads on or closes, and
\* the command whose application completes is the oldest owed.
C8_AppliedInReceiptOrder ==
    /\ [](\A s \in Sessions :
            pc[s] \in {"active", "closing", "stopping", "ended"}
                => owed[s] = <<>>)
    /\ [](\A s \in Sessions :
            pc[s] \in {"locking", "writing"} => owed[s] = <<cur[s]>>)
    /\ [][\A s \in Sessions :
            owed'[s] # owed[s]
                => \/ /\ owed[s] = <<>>
                      /\ Len(owed'[s]) = 1
                      /\ pc'[s] = "locking"
                   \/ /\ owed'[s] = Tail(owed[s])
                      /\ InEffect(chan', Head(owed[s]))]_vars

\* C8 witness: a session has applied one command and is applying the
\* next, different one while another session waits for the Rover.
C8_Witness ==
    \E s, r \in Sessions :
        /\ s # r
        /\ pc[s] = "writing"
        /\ pc[r] = "locking"
        /\ lastCall["Left"] = MotorRun("Left", "Forward", 50)
        /\ cur[s] = MotorStop("Left")
        /\ owed[s] = <<MotorStop("Left")>>

\* C9: a completed MotorRun leaves its motor with control off tick
\* dutyOffTick(speed), and forward 4095 / backward 0 for Forward, forward 0
\* / backward 4095 for Backward; direction channels only hold 0 or 4095;
\* MotorRun Left Forward 50 gives (2047, 4095, 0).
C9_MotorRunEffect ==
    /\ [](\A c \in DirectionChannels : chan[c] \in {0, 4095})
    /\ [][\A s \in Sessions :
            (pc[s] = "writing" /\ pc'[s] = "active" /\ cur[s].tag = "MotorRun")
                => /\ Triple(chan', cur[s].motor) = ExpectedTriple(cur[s])
                   /\ cur[s] = MotorRun("Left", "Forward", 50)
                        => Triple(chan', "Left") = <<2047, 4095, 0>>]_vars

\* C9 witness: MotorRun Left Forward 50 and MotorRun Right Backward 100
\* have both been applied.
C9_Witness ==
    /\ Quiet
    /\ lastCall["Left"] = MotorRun("Left", "Forward", 50)
    /\ lastCall["Right"] = MotorRun("Right", "Backward", 100)
    /\ Triple(chan, "Left") = <<2047, 4095, 0>>
    /\ Triple(chan, "Right") = <<4095, 0, 4095>>

\* C10: a MotorStop, and every DCMotor::stop of a Rover::stop, writes off
\* tick 0 to the motor's control channel whatever the motor was doing and
\* leaves every direction channel as it was.
C10_StopLeavesDirection ==
    [][\A s \in Sessions :
          todo'[s] # todo[s] =>
            /\ (pc[s] = "writing" /\ cur[s].tag = "MotorStop")
                 => /\ chan'[MotorChannels(cur[s].motor).control] = 0
                    /\ \A c \in DirectionChannels : chan'[c] = chan[c]
            /\ pc[s] = "stopping"
                 => /\ \A c \in DirectionChannels : chan'[c] = chan[c]
                    /\ \E m \in MotorIds :
                         /\ chan'[MotorChannels(m).control] = 0
                         /\ lastCall'[m] = RoverStopCall
                    /\ (pc'[s] = "ended") => MotorsStopped(chan')]_vars

\* C10 witness: the right motor ran backward and was then stopped by a
\* MotorStop: control 0, direction channels still backward.
C10_Witness ==
    /\ lastCall["Right"] = MotorStop("Right")
    /\ Triple(chan, "Right") = <<0, 0, FullOn>>

\* ------------------------------------------ SpecDuty: the duty-cycle mapping

\* The pulse values set_pwm_duty_cycle is called with: the nominal range,
\* the first value above it, the values around the point where the cast
\* to u16 saturates, and the largest u16.
Pulses == (0..MaxPulse) \cup {1600, 1601, U16Max}

\* The log keeps the two most recent calls.
LastTwo(h) == IF Len(h) > 2 THEN Tail(h) ELSE h

\* No call of set_pwm_duty_cycle has been made.
InitDuty ==
    /\ chan = [c \in Channels |-> 0]
    /\ mainpc = "serving"
    /\ pc = [s \in Sessions |-> "active"]
    /\ cause = [s \in Sessions |-> "none"]
    /\ closeSeen = [s \in Sessions |-> FALSE]
    /\ watched = 1
    /\ trail = <<>>
    /\ errs = "no"
    /\ lock = 0
    /\ todo = [s \in Sessions |-> <<>>]
    /\ cur = [s \in Sessions |-> NoCommand]
    /\ owed = [s \in Sessions |-> <<>>]
    /\ lastCall = [m \in MotorIds |-> NoCommand]

\* set_pwm_duty_cycle(motor's control channel, pulse), up to the call of
\* set_channel_on_off (rover.rs lines 56-63): trail logs the pulse and the
\* register write handed to the PWM controller.
DutyCall(motor, pulse) ==
    /\ trail' = LastTwo(Append(trail,
                   [pulse |-> pulse,
                    write |-> SetPwmDutyCycle(MotorChannels(motor).control, pulse)]))
    /\ UNCHANGED <<chan, mainpc, pc, cause, closeSeen, watched, errs, busVars>>

NextDuty == \E m \in MotorIds : \E p \in Pulses : DutyCall(m, p)

SpecDuty == InitDuty /\ [][NextDuty]_vars

\* round(speed * 4096/100 - 1) clamped below at 0, by its defining
\* property: the integer within a half of speed * 40.96 - 1 (kept in
\* hundredths), or 0 when that value is negative.
ClaimedOffTick(speed) ==
    LET x == speed * 4096 - 100
    IN  IF x <= 0 THEN 0
        ELSE CHOOSE n \in {x \div 100, x \div 100 + 1} :
                 /\ 100 * n - x < 50
                 /\ x - 100 * n <= 50

\* C11: for every speed in 0..100 the off tick set_pwm_duty_cycle hands to
\* the controller is round(speed * 4096/100 - 1) clamped below at 0: it is
\* 0 for speed 0, 2047 for 50, 4095 for 100, lies in 0..4095 and is
\* non-decreasing in speed.
C11_DutyOffTickNominal ==
    /\ \A i \in 1..Len(trail) :
          trail[i].pulse \in 0..100 =>
            /\ trail[i].write.off = ClaimedOffTick(trail[i].pulse)
            /\ trail[i].write.off \in 0..4095
            /\ trail[i].pulse = 0 => trail[i].write.off = 0
            /\ trail[i].pulse = 50 => trail[i].write.off = 2047
            /\ trail[i].pulse = 100 => trail[i].write.off = 4095
    /\ \A i, j \in 1..Len(trail) :
          (trail[i].pulse <= trail[j].pulse /\ trail[j].pulse <= 100)
              => trail[i].write.off <= trail[j].write.off

\* C11 witness: set_pwm_duty_cycle was called with 50 and then with 100 and
\* handed 2047 and then 4095 to the controller.
C11_Witness ==
    /\ Len(trail) = 2
    /\ trail[1].pulse = 50 /\ trail[1].write.off = 2047
    /\ trail[2].pulse = 100 /\ trail[2].write.off = 4095

\* C12: the speed is clamped to 0..100: the off tick handed to the
\* controller never exceeds 4095, and a speed above 100 gives the write of
\* speed 100.
C12_SpeedClamped ==
    \A i \in 1..Len(trail) :
        /\ trail[i].write.off <= 4095
        /\ trail[i].pulse > 100 => trail[i].write.off = DutyOffTick(100)

\* ------------------------------------------ SpecDrv: the driver, call by call

\* The calls a holder of the Rover makes: set_speed and stop of either
\* motor (through a MotorRun or MotorStop) and Rover::stop.
DrvCalls == BusCommands \cup {RoverStopCall}

\* The register writes of a driver call, in program order.
CallWrites(c) ==
    IF c.tag = "RoverStop" THEN RoverStopWrites ELSE DispatchWrites(c)

\* The Rover is built and all six registers are low; the caller, the
\* watched session, has made no call.
InitDrv ==
    /\ chan = [c \in Channels |-> 0]
    /\ mainpc = "serving"
    /\ pc = [s \in Sessions |-> "active"]
    /\ cause = [s \in Sessions |-> "none"]
    /\ closeSeen = [s \in Sessions |-> FALSE]
    /\ watched = 1
    /\ trail = <<>>
    /\ errs = "no"
    /\ lock = 0
    /\ todo = [s \in Sessions |-> <<>>]
    /\ cur = [s \in Sessions |-> NoCommand]
    /\ owed = [s \in Sessions |-> <<>>]
    /\ lastCall = [m \in MotorIds |-> NoCommand]

\* The caller enters set_speed, DCMotor::stop or Rover::stop.
DrvCall(c) ==
    /\ pc[watched] = "active"
    /\ pc' = [pc EXCEPT ![watched] = "writing"]
    /\ cur' = [cur EXCEPT ![watched] = c]
    /\ todo' = [todo EXCEPT ![watched] = CallWrites(c)]
    /\ trail' = <<>>
    /\ UNCHANGED <<chan, mainpc, cause, closeSeen, watched, errs, lock, owed,
                   lastCall>>

\* One set_channel_on_off of the call (rover.rs lines 63, 69, 72); the call
\* returns after its last write.
DrvWrite ==
    /\ pc[watched] = "writing"
    /\ todo[watched] # <<>>
    /\ chan' = WriteReg(chan, Head(todo[watched]))
    /\ trail' = Append(trail, Head(todo[watched]))
    /\ todo' = [todo EXCEPT ![watched] = Tail(@)]
    /\ pc' = [pc EXCEPT ![watched] =
                IF Len(todo[watched]) = 1 THEN "active" ELSE @]
    /\ UNCHANGED <<mainpc, cause, closeSeen, watched, errs, lock, cur, owed,
                   lastCall>>

NextDrv ==
    \/ \E c \in DrvCalls : DrvCall(c)
    \/ DrvWrite

SpecDrv == InitDrv /\ [][NextDrv]_vars

\* The driver call c has returned.
Returned(c) == pc[watched] = "active" /\ cur[watched] = c

\* h is an initial part of the sequence ws.
IsPrefix(h, ws) == Len(h) <= Len(ws) /\ h = SubSeq(ws, 1, Len(h))

\* C14: Rover.stop() stops the right motor first and the left motor after
\* it: it makes exactly two writes, off tick 0 to the right control channel
\* and then off tick 0 to the left control channel, writes no direction
\* channel, and both control off ticks are 0 when it returns.
C14_RoverStopOrder ==
    LET right == RegWrite(MotorChannels("Right").control, 0)
        left == RegWrite(MotorChannels("Left").control, 0)
    IN  /\ cur[watched] = RoverStopCall => IsPrefix(trail, <<right, left>>)
        /\ Returned(RoverStopCall) =>
              /\ trail = <<right, left>>
              /\ MotorsStopped(chan)

\* C14 witness: Rover.stop() has returned with the left motor set forward
\* and the right motor set backward, both of which were running.
C14_Witness ==
    /\ Returned(RoverStopCall)
    /\ Len(trail) = 2
    /\ Triple(chan, "Left") = <<0, FullOn, 0>>
    /\ Triple(chan, "Right") = <<0, 0, FullOn>>

\* C18: between any two register writes, a motor's forward and backward
\* channels are never both high (off tick 4095), for every sequence of
\* MotorRun commands starting from both channels low.
C18_NeverBothHigh ==
    \A m \in MotorIds :
        ~ /\ chan[MotorChannels(m).forward] = 4095
          /\ chan[MotorChannels(m).backward] = 4095

\* The channels a command addressed to the motor may write, in the order
\* set_speed writes them: control, forward, backward.
OwnChannels(motor) ==
    IF motor = "Right" THEN <<"C0", "C1", "C2">> ELSE <<"C5", "C3", "C4">>

\* The motor a command is not addressed to.
OtherMotor(motor) == IF motor = "Right" THEN "Left" ELSE "Right"

\* The channels of the register writes in h, in order.
ChannelsOf(h) == [i \in 1..Len(h) |-> h[i].channel]

\* C19: a MotorRun or MotorStop for Right writes only C0 (control), C1
\* (forward), C2 (backward), one for Left only C5, C3, C4; the two triples
\* are disjoint and no write of the command changes an off tick of the
\* other motor.
C19_MotorsIndependent ==
    /\ [](cur[watched].tag \in {"MotorRun", "MotorStop"} =>
            LET own == OwnChannels(cur[watched].motor)
            IN  /\ IsPrefix(ChannelsOf(trail), own)
                /\ Returned(cur[watched]) =>
                      ChannelsOf(trail) =
                        IF cur[watched].tag = "MotorRun" THEN own
                        ELSE SubSeq(own, 1, 1))
    /\ [](\A m \in MotorIds :
            LET a == MotorChannels(m)
                b == MotorChannels(OtherMotor(m))
            IN  /\ <<a.control, a.forward, a.backward>> = OwnChannels(m)
                /\ {a.control, a.forward, a.backward}
                     \cap {b.control, b.forward, b.backward} = {})
    /\ [][(trail' # trail /\ cur[watched].tag \in {"MotorRun", "MotorStop"})
            => Triple(chan', OtherMotor(cur[watched].motor))
                 = Triple(chan, OtherMotor(cur[watched].motor))]_vars

\* C19 witness: the left motor runs backward at full speed and a MotorRun
\* Right Forward 50 has just returned, leaving the left triple as it was.
C19_Witness ==
    /\ Returned(MotorRun("Right", "Forward", 50))
    /\ Len(trail) = 3
    /\ Triple(chan, "Right") = <<2047, FullOn, 0>>
    /\ Triple(chan, "Left") = <<FullOn, 0, FullOn>>

\* ----------------------------------- SpecLock: the traffic of the Rover mutex

\* The task of main(), which runs shutdown_signal, as a holder of the lock.
MainTask == NumSessions + 1

\* The state of the mutex after a task panicked while holding the guard:
\* nobody holds it and every lock() returns Err(PoisonError).
Poisoned == NumSessions + 2

\* The frames of SpecLock: two commands and a text that is no command.
LockMessages ==
    { Msg("Text", ToJson(MotorRun("Left", "Forward", 50))),
      Msg("Text", ToJson(MotorStop("Left"))),
      Msg("Text", Garbage) }

\* The server is serving after the startup stop, every session task awaits
\* its upgrade, main awaits Ctrl-C and nobody holds the Rover.
InitLock ==
    /\ chan = [c \in Channels |-> 0]
    /\ mainpc = "serving"
    /\ pc = [s \in Sessions |-> "upgrading"]
    /\ cause = [s \in Sessions |-> "none"]
    /\ closeSeen = [s \in Sessions |-> FALSE]
    /\ watched = 1
    /\ trail = <<>>
    /\ errs = "no"
    /\ lock = 0
    /\ todo = [t \in Sessions \cup {MainTask} |-> <<>>]
    /\ cur = [s \in Sessions |-> NoCommand]
    /\ owed = [s \in Sessions |-> <<>>]
    /\ lastCall = [m \in MotorIds |-> NoCommand]

\* main.rs lines 96-111: upgrade::on resolves and the session reads its
\* stream.
BusUpgraded(s) ==
    /\ pc[s] = "upgrading"
    /\ pc' = [pc EXCEPT ![s] = "active"]
    /\ UNCHANGED <<chan, mainpc, cause, closeSeen, histVars, busVars>>

\* shutdown_signal, lines 206-208: ctrl_c() resolves.
Signal ==
    /\ mainpc = "serving"
    /\ mainpc' = "signalled"
    /\ UNCHANGED <<chan, pc, cause, closeSeen, histVars, busVars>>

\* shutdown_signal, line 210: rover.lock().unwrap(), entering Rover::stop.
MainAcquire ==
    /\ mainpc = "signalled"
    /\ MutexFree(lock)
    /\ lock' = MainTask
    /\ todo' = [todo EXCEPT ![MainTask] = RoverStopWrites]
    /\ mainpc' = "stopping"
    /\ UNCHANGED <<chan, pc, cause, closeSeen, histVars, cur, owed, lastCall>>

\* One set_channel_on_off of the Rover::stop of line 210; with the last
\* one the guard is dropped and the graceful shutdown begins.
MainWrite ==
    /\ mainpc = "stopping"
    /\ todo[MainTask] # <<>>
    /\ LET w == Head(todo[MainTask])
           last == Len(todo[MainTask]) = 1
       IN  /\ chan' = WriteReg(chan, w)
           /\ todo' = [todo EXCEPT ![MainTask] = Tail(@)]
           /\ lastCall' = [lastCall EXCEPT ![MotorOf(w.channel)] = RoverStopCall]
           /\ lock' = IF last THEN 0 ELSE lock
           /\ mainpc' = IF last THEN "draining" ELSE mainpc
    /\ UNCHANGED <<pc, cause, closeSeen, histVars, cur, owed>>

NextLock ==
    \/ \E s \in Sessions : BusUpgraded(s)
    \/ \E s \in Sessions : \E msg \in LockMessages : BusRecv(s, msg)
    \/ \E s \in Sessions : AcquireForCommand(s)
    \/ \E s \in Sessions : \E o \in StreamOutcomes : BusStreamDone(s, o)
    \/ \E s \in Sessions : AcquireForStop(s)
    \/ \E s \in Sessions : WriteStep(s)
    \/ Signal
    \/ MainAcquire
    \/ MainWrite

SpecLock == InitLock /\ [][NextLock]_vars

\* The tasks that are inside a driver call, between taking the guard and
\* dropping it.
Holders ==
    {s \in Sessions : pc[s] \in {"writing", "stopping"}}
    \cup (IF mainpc = "stopping" THEN {MainTask} ELSE {})

\* The tasks that have called lock() and do not have the guard yet.
Lockers ==
    {s \in Sessions : pc[s] \in {"locking", "closing"}}
    \cup (IF mainpc = "signalled" THEN {MainTask} ELSE {})

\* C17: the Rover mutex is never held across a suspension point: a task
\* waiting for its upgrade, for its next frame or for the interrupt signal
\* does not hold the lock; at most one task holds it at any time; and no
\* acquisition deadlocks: the holder always has its next register write
\* to make, and a task calling lock() while nobody holds it gets it.
C17_LockNotHeldWhileWaiting ==
    /\ \A s \in Sessions :
          pc[s] \in {"upgrading", "active"} => (lock # s /\ todo[s] = <<>>)
    /\ mainpc \in {"serving", "draining"} =>
          (lock # MainTask /\ todo[MainTask] = <<>>)
    /\ Cardinality(Holders) <= 1
    /\ Holders = (IF lock = 0 THEN {} ELSE {lock})
    /\ lock # 0 => todo[lock] # <<>>
    /\ (lock = 0 /\ Lockers # {}) =>
          \/ \E s \in Sessions : ENABLED AcquireForCommand(s)
          \/ \E s \in Sessions : ENABLED AcquireForStop(s)
          \/ ENABLED MainAcquire

\* C17 witness: the interrupt handler is inside Rover::stop holding the
\* lock, one session waits for the lock with a command, another waits for
\* its next frame.
C17_Witness ==
    /\ mainpc = "stopping"
    /\ lock = MainTask
    /\ \E s, r \in Sessions :
          /\ pc[s] = "locking"
          /\ pc[r] = "active"
          /\ chan[MotorChannels("Left").control] = DutyOffTick(50)

\* ------------------------------------- SpecFault: a bus whose writes may fail

\* set_channel_on_off returns Err inside a session's driver call: the
\* unwrap() of rover.rs lines 63, 69, 72 panics, the unwinding drops the
\* guard, which poisons the mutex, and the session task ends there.
WriteFails(s) ==
    /\ pc[s] \in {"writing", "stopping"}
    /\ todo[s] # <<>>
    /\ pc' = [pc EXCEPT ![s] = "panicked"]
    /\ lock' = Poisoned
    /\ todo' = [todo EXCEPT ![s] = <<>>]
    /\ cur' = [cur EXCEPT ![s] = NoCommand]
    /\ owed' = [owed EXCEPT ![s] = <<>>]
    /\ cause' = [cause EXCEPT ![s] = "none"]
    /\ UNCHANGED <<chan, mainpc, closeSeen, histVars, lastCall>>

\* rover.lock().unwrap() of main.rs lines 54, 62, 120, 123, 127 on the
\* poisoned mutex: lock() returns Err, unwrap() panics, the session task
\* ends without having touched the Rover.
AcquirePoisoned(s) ==
    /\ pc[s] \in {"locking", "closing"}
    /\ lock = Poisoned
    /\ pc' = [pc EXCEPT ![s] = "panicked"]
    /\ cur' = [cur EXCEPT ![s] = NoCommand]
    /\ owed' = [owed EXCEPT ![s] = <<>>]
    /\ cause' = [cause EXCEPT ![s] = "none"]
    /\ UNCHANGED <<chan, mainpc, closeSeen, histVars, lock, todo, lastCall>>

\* The session tasks once main() has panicked: the process is gone and
\* every task with it, wherever it was.
AllDropped == [s \in Sessions |-> "dropped"]

\* set_channel_on_off returns Err inside the Rover::stop of line 210: the
\* panic unwinds through main() and the process ends.
MainWriteFails ==
    /\ mainpc = "stopping"
    /\ todo[MainTask] # <<>>
    /\ mainpc' = "panicked"
    /\ pc' = AllDropped
    /\ lock' = Poisoned
    /\ todo' = [t \in Sessions \cup {MainTask} |-> <<>>]
    /\ UNCHANGED <<chan, cause, closeSeen, histVars, cur, owed, lastCall>>

\* rover.lock().unwrap() of line 210 on the poisoned mutex: main() panics
\* and the process ends without the interrupt stop.
MainAcquirePoisoned ==
    /\ mainpc = "signalled"
    /\ lock = Poisoned
    /\ mainpc' = "panicked"
    /\ pc' = AllDropped
    /\ UNCHANGED <<chan, cause, closeSeen, histVars, busVars>>

NextFault ==
    \/ NextLock
    \/ \E s \in Sessions : WriteFails(s)
    \/ \E s \in Sessions : AcquirePoisoned(s)
    \/ MainWriteFails
    \/ MainAcquirePoisoned

SpecFault == InitLock /\ [][NextFault]_vars

\* C16: a session whose register write fails while it applies a command
\* goes on to a Rover.stop() attempt and then ends; and the failure keeps
\* no later Rover.stop(), of another session's exit or of the interrupt
\* handler, from acquiring the Rover and running.
C16_WriteFailureForcesStop ==
    /\ [][\A s \in Sessions :
            (pc[s] = "writing" /\ pc'[s] \notin {"writing", "active"})
                => pc'[s] \in {"closing", "stopping"}]_vars
    /\ [][\A s \in Sessions :
            (pc[s] = "closing" /\ pc'[s] # "closing") => pc'[s] = "stopping"]_vars
    /\ [][(mainpc = "signalled" /\ mainpc' # "signalled")
            => mainpc' = "stopping"]_vars

====
